---- MODULE Spec2Model ----
(***************************************************************************)
(* Credential and session lifecycle of the INTERVIEW-AI backend:           *)
(* src/backend/routes/auth.py, src/backend/routes/logout.py and            *)
(* src/backend/utils/jwt_auth.py over MySQL (User, HASH), Redis            *)
(* (the user_token and login_attempts keys) and the otp_storage dict.       *)
(*                                                                         *)
(* Time is counted in seconds.  PyJWT writes exp as whole seconds and      *)
(* rejects a token when exp <= now; Redis drops a key when now is past its *)
(* expiry instant; the OTP handlers compare datetime.now() > expires_at.   *)
(***************************************************************************)
EXTENDS Integers, Sequences, FiniteSets, Bags, TLC

\* ------------------------------------------------------------- bounds
\* how many times the clock may be advanced in one behaviour
MaxAdvances == 2
\* how many /login requests may be between their counter read and their finish
MaxReqs == 2
\* how many distinct tokens may be issued in one behaviour
MaxTokens == 2

\* ------------------------------------------------- program constants
ACCESS_TOKEN_EXPIRE_MINUTES == 300
LOGIN_ATTEMPT_LIMIT == 5
LOGIN_ATTEMPT_TTL == 300
OTP_EXPIRE_MINUTES == 15

\* ---------------------------------------------------------- input sets
Emails == {"alice@x.com", "bob@x.com"}
GoogleDefault == "GoogleDefault@123"
IPs == {"10.0.0.1"}
Otps == {"123456", "654321"}
\* Python None, SQL NULL, a missing key
None == [none |-> TRUE]

VARIABLES
    now,            \* the clock, in seconds
    ticks,          \* how many times the clock was advanced
    User,           \* MySQL table User: sequence of emails, index = user_id
    HASH,           \* MySQL table HASH: set of rows [user_id, email, hash_password]
    user_token,     \* Redis key user_token -> None or [val, exp]
    login_attempts, \* Redis key login_attempts -> None or [val, exp]
    otp_storage,    \* auth.otp_storage: email -> None or [otp, expires_at, verified]
    inflight,       \* bag of /login requests past the counter read: [ip, attempts]
    issued,         \* every token create_access_token has returned so far
    last,           \* what the last step answered
    logged_out,     \* history: the token last presented to /logout while it was current
    locked_until,   \* history: source -> expiry of its counter when it last reached the limit
    consumed        \* history: email -> successful resets of the record forgot_password last stored

vars == <<now, ticks, User, HASH, user_token, login_attempts, otp_storage,
          inflight, issued, last, logged_out, locked_until, consumed>>

\* ------------------------------------------------------------ responses
Resp(op, status, detail, attempts) ==
    [op |-> op, status |-> status, detail |-> detail, attempts |-> attempts]

\* ------------------------------------------------------- password hasher
hash_password(password) == [bcrypt |-> password]

verify_password(plain_password, hashed_password) == hashed_password.bcrypt = plain_password

\* ---------------------------------------------------------------- tokens
\* str(user_id) and user_id are different JSON values in the payload
StrId(n) == [type |-> "str", v |-> n]
IntId(n) == [type |-> "int", v |-> n]
\* f"user_token:{user_id}" formats both to the same key
KeyOf(user_id) == user_id.v

\* jwt.encode is deterministic: equal payloads (exp in whole seconds) give equal strings
create_access_token(data, expires_in_minutes) ==
    [user_id |-> data.user_id, email |-> data.email,
     exp |-> now + expires_in_minutes * 60, sig |-> "HS256"]

\* request.cookies.get("access_token") when the cookie is not sent
NoCookie == [user_id |-> IntId(0), email |-> "", exp |-> 0, sig |-> "none"]

\* a token signed with another key than JWT_SECRET: chosen payload, far expiry
Forged(email) ==
    [user_id |-> IntId(1), email |-> email,
     exp |-> (MaxAdvances + 2) * ACCESS_TOKEN_EXPIRE_MINUTES * 60, sig |-> "forged"]

\* mutant: < for <=, a token is still taken at its exp instant
decode_access_token_LateExpiry(token) ==
    IF token.sig = "HS256" /\ ~(token.exp < now)
    THEN [user_id |-> token.user_id, email |-> token.email]
    ELSE None

\* mutant: the payload read without checking signature and expiry
decode_access_token_Unverified(token) == [user_id |-> token.user_id, email |-> token.email]

decode_access_token(token) ==
    IF token.sig = "HS256" /\ ~(token.exp <= now)
    THEN [user_id |-> token.user_id, email |-> token.email]
    ELSE None

\* ----------------------------------------------------------------- Redis
RedisLive(store, key) == store[key] # None /\ ~(now > store[key].exp)

RedisGet(store, key) == IF RedisLive(store, key) THEN store[key].val ELSE None

RedisSetex(store, key, seconds, value) ==
    [store EXCEPT ![key] = [val |-> value, exp |-> now + seconds]]

RedisDelete(store, key) == [store EXCEPT ![key] = None]

\* INCR creates the key at 1 without expiry (exp -1 until EXPIRE), or adds 1 keeping the expiry
RedisIncr(store, key) ==
    IF RedisLive(store, key)
    THEN [store EXCEPT ![key] = [val |-> store[key].val + 1, exp |-> store[key].exp]]
    ELSE [store EXCEPT ![key] = [val |-> 1, exp |-> -1]]

RedisExpire(store, key, seconds) ==
    [store EXCEPT ![key] = [val |-> store[key].val, exp |-> now + seconds]]

\* keys whose expiry instant has passed at time t are gone
RedisSweep(store, t) ==
    [k \in DOMAIN store |-> IF store[k] # None /\ t > store[k].exp THEN None ELSE store[k]]

\* int(redis_client.get(redis_key) or 0)
ReadAttempts(ip) == IF RedisLive(login_attempts, ip) THEN login_attempts[ip].val ELSE 0

\* mutant: the comparison written with > for >=
IsLocked_OffByOne(attempts) == attempts > LOGIN_ATTEMPT_LIMIT

\* attempts >= 5
IsLocked(attempts) == attempts >= LOGIN_ATTEMPT_LIMIT

\* mutant: the lifetime given in minutes where EXPIRE takes seconds
RecordFailure_LongTtl(store, ip) == RedisExpire(RedisIncr(store, ip), ip, LOGIN_ATTEMPT_TTL * 60)

\* redis_client.incr(redis_key); redis_client.expire(redis_key, 300)
RecordFailure(store, ip) == RedisExpire(RedisIncr(store, ip), ip, LOGIN_ATTEMPT_TTL)

\* mutant: the counter is not deleted on success
ClearAttempts_Skip(store, ip) == store

\* redis_client.delete(redis_key)
ClearAttempts(store, ip) == RedisDelete(store, ip)

\* history: when the counter of `ip` stands at the limit, the instant it expires
LockedUntil(store, ip) ==
    IF store[ip] # None /\ store[ip].val >= LOGIN_ATTEMPT_LIMIT
    THEN [locked_until EXCEPT ![ip] = store[ip].exp]
    ELSE locked_until

\* ----------------------------------------------------------------- MySQL
UserIds == 1..Len(User)

HashesOf(user_id) ==
    IF \E r \in HASH : r.user_id = user_id
    THEN {r.hash_password : r \in {x \in HASH : x.user_id = user_id}}
    ELSE {None}

\* mutant: JOIN for LEFT JOIN, a User row without a HASH row is not found
get_user_by_email_InnerJoin(email) ==
    { r \in UNION { { [user_id |-> u, email |-> email, hash_password |-> h] : h \in HashesOf(u) } :
                    u \in {x \in UserIds : User[x] = email} } : r.hash_password # None }

\* SELECT u.user_id, u.email, h.hash_password FROM User u LEFT JOIN HASH h
\*   ON u.user_id = h.user_id WHERE u.email = %s LIMIT 1: the rows LIMIT 1 may return
get_user_by_email(email) ==
    UNION { { [user_id |-> u, email |-> email, hash_password |-> h] : h \in HashesOf(u) } :
            u \in {x \in UserIds : User[x] = email} }

create_user(email) == Append(User, email)

create_user_hash(user_id, email, hashed_password) ==
    HASH \cup {[user_id |-> user_id, email |-> email, hash_password |-> hashed_password]}

\* mutant: the UPDATE is not committed
UpdateHash_Stale(email, hashed_password) == HASH

\* UPDATE HASH SET hash_password = %s WHERE email = %s
UpdateHash(email, hashed_password) ==
    { IF r.email = email THEN [r EXCEPT !.hash_password = hashed_password] ELSE r : r \in HASH }

store_token_in_redis(user_id, token, expires_in_seconds) ==
    RedisSetex(user_token, KeyOf(user_id), expires_in_seconds, token)

\* -------------------------------------------------------- auth dependency
\* mutant: the Redis comparison left out, the decoded token trusted as it is
get_current_user_NoRegistry(token) ==
    IF token = NoCookie THEN [status |-> 401, detail |-> "Token missing from cookie"]
    ELSE IF decode_access_token(token) = None
         THEN [status |-> 401, detail |-> "Invalid or expired token"]
    ELSE [status |-> 200, detail |-> "ok"]

\* get_current_user: the HTTP status and detail it answers for a presented cookie
get_current_user(token) ==
    IF token = NoCookie THEN [status |-> 401, detail |-> "Token missing from cookie"]
    ELSE IF decode_access_token(token) = None
         THEN [status |-> 401, detail |-> "Invalid or expired token"]
    ELSE IF RedisGet(user_token, KeyOf(decode_access_token(token).user_id)) # token
         THEN [status |-> 401, detail |-> "Session expired or token invalid"]
    ELSE [status |-> 200, detail |-> "ok"]

\* what a client can put in the cookie
Presentable == issued \cup {Forged(e) : e \in Emails} \cup {NoCookie}

Init ==
    /\ now = 0
    /\ ticks = 0
    /\ User = <<>>
    /\ HASH = {}
    /\ user_token = [u \in 1..Cardinality(Emails) |-> None]
    /\ login_attempts = [ip \in IPs |-> None]
    /\ otp_storage = [e \in Emails |-> None]
    /\ inflight = EmptyBag
    /\ issued = {}
    /\ last = Resp("init", 0, "", 0)
    /\ logged_out = None
    /\ locked_until = [ip \in IPs |-> -1]
    /\ consumed = [e \in Emails |-> 0]

\* ----------------------------------------------------------------- /signup
\* db_ok: whether the INSERT INTO HASH goes through
signup(email, password, db_ok) ==
    /\ IF get_user_by_email(email) # {}
       THEN /\ last' = Resp("signup", 409, "Email already registered", 0)
            /\ UNCHANGED <<User, HASH, user_token, issued>>
       ELSE LET user_id == Len(User) + 1
                token == create_access_token(
                            [user_id |-> StrId(user_id), email |-> email],
                            ACCESS_TOKEN_EXPIRE_MINUTES)
            IN  /\ User' = create_user(email)
                /\ IF db_ok
                   THEN /\ HASH' = create_user_hash(user_id, email, hash_password(password))
                        /\ Cardinality(issued \cup {token}) <= MaxTokens
                        /\ issued' = issued \cup {token}
                        /\ user_token' = store_token_in_redis(StrId(user_id), token,
                                                ACCESS_TOKEN_EXPIRE_MINUTES * 60)
                        /\ last' = Resp("signup", 200, "ok", 0)
                   ELSE \* create_user_hash raises: the User row is already committed
                        /\ last' = Resp("signup", 500, "Internal Server Error", 0)
                        /\ UNCHANGED <<HASH, user_token, issued>>
    /\ UNCHANGED <<now, ticks, login_attempts, otp_storage, inflight,
                   logged_out, locked_until, consumed>>

\* ------------------------------------------------------------------ /login
\* mutant: a wrong password ends the session of the user it was tried on
LoginBody_RevokeOnFailure(ip, attempts, email, password) ==
    LET found == get_user_by_email(email)
    IN  \E user \in IF found = {} THEN {None} ELSE found :
          IF user = None \/ user.hash_password = None
          THEN /\ login_attempts' = RecordFailure(login_attempts, ip)
               /\ last' = Resp("login", 401, "Invalid email or password", attempts)
               /\ UNCHANGED <<user_token, issued>>
          ELSE IF ~verify_password(password, user.hash_password)
          THEN /\ login_attempts' = RecordFailure(login_attempts, ip)
               /\ last' = Resp("login", 401, "Invalid email or password", attempts)
               /\ user_token' = RedisDelete(user_token, KeyOf(StrId(user.user_id)))
               /\ UNCHANGED issued
          ELSE LET token == create_access_token(
                               [user_id |-> IntId(user.user_id), email |-> user.email],
                               ACCESS_TOKEN_EXPIRE_MINUTES)
               IN  /\ login_attempts' = ClearAttempts(login_attempts, ip)
                   /\ Cardinality(issued \cup {token}) <= MaxTokens
                   /\ issued' = issued \cup {token}
                   /\ user_token' = store_token_in_redis(StrId(user.user_id), token,
                                           ACCESS_TOKEN_EXPIRE_MINUTES * 60)
                   /\ last' = Resp("login", 200, "ok", attempts)

\* lines 193-229 for a request that read `attempts` < 5 from source `ip`:
\* credential lookup, password check, counter update, session
LoginBody(ip, attempts, email, password) ==
    LET found == get_user_by_email(email)
    IN  \E user \in IF found = {} THEN {None} ELSE found :
          IF user = None \/ user.hash_password = None
          THEN /\ login_attempts' = RecordFailure(login_attempts, ip)
               /\ last' = Resp("login", 401, "Invalid email or password", attempts)
               /\ UNCHANGED <<user_token, issued>>
          ELSE IF ~verify_password(password, user.hash_password)
          THEN /\ login_attempts' = RecordFailure(login_attempts, ip)
               /\ last' = Resp("login", 401, "Invalid email or password", attempts)
               /\ UNCHANGED <<user_token, issued>>
          ELSE LET token == create_access_token(
                               [user_id |-> IntId(user.user_id), email |-> user.email],
                               ACCESS_TOKEN_EXPIRE_MINUTES)
               IN  /\ login_attempts' = ClearAttempts(login_attempts, ip)
                   /\ Cardinality(issued \cup {token}) <= MaxTokens
                   /\ issued' = issued \cup {token}
                   /\ user_token' = store_token_in_redis(StrId(user.user_id), token,
                                           ACCESS_TOKEN_EXPIRE_MINUTES * 60)
                   /\ last' = Resp("login", 200, "ok", attempts)

\* mutant: a throttled request is counted as one more failure
login_CountsThrottled(ip, email, password) ==
    LET attempts == ReadAttempts(ip)
    IN  /\ IF IsLocked(attempts)
           THEN /\ last' = Resp("login", 429, "Too many login attempts. Try again later.",
                                attempts)
                /\ login_attempts' = RecordFailure(login_attempts, ip)
                /\ UNCHANGED <<user_token, issued>>
           ELSE LoginBody(ip, attempts, email, password)
        /\ locked_until' = LockedUntil(login_attempts', ip)
        /\ UNCHANGED <<now, ticks, User, HASH, otp_storage, inflight, logged_out, consumed>>

\* the whole handler, run to completion by one event loop (no await inside it)
login(ip, email, password) ==
    LET attempts == ReadAttempts(ip)
    IN  /\ IF IsLocked(attempts)
           THEN /\ last' = Resp("login", 429, "Too many login attempts. Try again later.",
                                attempts)
                /\ UNCHANGED <<user_token, login_attempts, issued>>
           ELSE LoginBody(ip, attempts, email, password)
        /\ locked_until' = LockedUntil(login_attempts', ip)
        /\ UNCHANGED <<now, ticks, User, HASH, otp_storage, inflight, logged_out, consumed>>

\* the same handler in one of several worker processes sharing Redis and MySQL:
\* lines 183-191, the GET of the counter and its check ...
LoginBegin(ip) ==
    LET attempts == ReadAttempts(ip)
    IN  /\ IF IsLocked(attempts)
           THEN /\ last' = Resp("login", 429, "Too many login attempts. Try again later.",
                                attempts)
                /\ UNCHANGED inflight
           ELSE /\ BagCardinality(inflight) < MaxReqs
                /\ inflight' = inflight (+) SetToBag({[ip |-> ip, attempts |-> attempts]})
                /\ last' = Resp("login", 0, "pending", attempts)
        /\ UNCHANGED <<now, ticks, User, HASH, user_token, login_attempts, otp_storage,
                       issued, logged_out, locked_until, consumed>>

\* ... and lines 193-229, after other requests may have run.  The payload is not
\* read before line 193, so it is drawn here.
LoginFinish(req, email, password) ==
    /\ BagIn(req, inflight)
    /\ inflight' = inflight (-) SetToBag({req})
    /\ LoginBody(req.ip, req.attempts, email, password)
    /\ locked_until' = LockedUntil(login_attempts', req.ip)
    /\ UNCHANGED <<now, ticks, User, HASH, otp_storage, logged_out, consumed>>

\* ------------------------------------------------------ /google-auth-login
\* idinfo: the email Google vouches for, or None when verify_oauth2_token raises ValueError
google_auth_login(idinfo) ==
    /\ IF idinfo = None
       THEN /\ last' = Resp("google_auth_login", 401, "Invalid Google token", 0)
            /\ UNCHANGED <<User, HASH, user_token, issued>>
       ELSE LET email == idinfo.email
                found == get_user_by_email(email)
            IN  \E user \in IF found = {} THEN {None} ELSE found :
                  LET user_id == IF user = None THEN Len(User) + 1 ELSE user.user_id
                      token == create_access_token(
                                  [user_id |-> IntId(user_id), email |-> email],
                                  ACCESS_TOKEN_EXPIRE_MINUTES)
                  IN  /\ User' = IF user = None THEN create_user(email) ELSE User
                      /\ HASH' = IF user = None \/ user.hash_password = None
                                 THEN create_user_hash(user_id, email, hash_password(GoogleDefault))
                                 ELSE HASH
                      /\ Cardinality(issued \cup {token}) <= MaxTokens
                      /\ issued' = issued \cup {token}
                      /\ user_token' = store_token_in_redis(StrId(user_id), token,
                                              ACCESS_TOKEN_EXPIRE_MINUTES * 60)
                      /\ last' = Resp("google_auth_login", 200, "ok", 0)
    /\ UNCHANGED <<now, ticks, login_attempts, otp_storage, inflight,
                   logged_out, locked_until, consumed>>

\* mutant: the registry entry is deleted only when the presented token is the current one
logout_CurrentOnly(token) ==
    /\ token \in Presentable
    /\ user_token' = IF get_current_user(token).status = 200
                     THEN RedisDelete(user_token, KeyOf(decode_access_token(token).user_id))
                     ELSE user_token
    /\ last' = Resp("logout", 200, "Logged out successfully.", 0)
    /\ logged_out' = IF get_current_user(token).status = 200 THEN token ELSE logged_out
    /\ UNCHANGED <<now, ticks, User, HASH, login_attempts, otp_storage, inflight, issued,
                   locked_until, consumed>>

\* ----------------------------------------------------------------- /logout
logout(token) ==
    /\ token \in Presentable
    /\ user_token' = IF token # NoCookie /\ decode_access_token(token) # None
                     THEN RedisDelete(user_token, KeyOf(decode_access_token(token).user_id))
                     ELSE user_token
    /\ last' = Resp("logout", 200, "Logged out successfully.", 0)
    /\ logged_out' = IF get_current_user(token).status = 200 THEN token ELSE logged_out
    /\ UNCHANGED <<now, ticks, User, HASH, login_attempts, otp_storage, inflight, issued,
                   locked_until, consumed>>

\* ------------------------------------------- any route behind get_current_user
authenticate(token) ==
    /\ token \in Presentable
    /\ last' = Resp("authenticate", get_current_user(token).status,
                    get_current_user(token).detail, 0)
    /\ UNCHANGED <<now, ticks, User, HASH, user_token, login_attempts, otp_storage,
                   inflight, issued, logged_out, locked_until, consumed>>

\* -------------------------------------------------------- /forgot-password
\* mutant: the lookup without the JOIN, a User row is enough
UserWithHash_NoJoin(email) == \E u \in UserIds : User[u] = email

\* SELECT u.user_id FROM User u JOIN HASH h ON u.user_id = h.user_id WHERE u.email = %s
UserWithHash(email) ==
    \E u \in UserIds : User[u] = email /\ \E r \in HASH : r.user_id = u

\* mutant: the dict of a stored record updated in place, its verified flag kept
StoreOtp_KeepVerified(store, email, otp) ==
    [store EXCEPT ![email] =
        [otp |-> otp, expires_at |-> now + OTP_EXPIRE_MINUTES * 60,
         verified |-> IF store[email] = None THEN FALSE ELSE store[email].verified]]

\* otp_storage[email] = {'otp': otp, 'expires_at': expires_at}: a new dict, no 'verified' key
StoreOtp(store, email, otp) ==
    [store EXCEPT ![email] =
        [otp |-> otp, expires_at |-> now + OTP_EXPIRE_MINUTES * 60, verified |-> FALSE]]

\* mutant: an exception of send_message is logged and the success response returned
MailResp_SendSwallowed(mail) ==
    CASE mail = "connect" -> Resp("forgot_password", 503, "Email service unavailable", 0)
      [] OTHER -> Resp("forgot_password", 200, "OTP sent successfully", 0)

\* lines 500-516: get_email_transporter raises HTTPException 503, which is re-raised;
\* any other exception (send_message, quit) is answered 500
MailResp(mail) ==
    CASE mail = "ok" -> Resp("forgot_password", 200, "OTP sent successfully", 0)
      [] mail = "connect" -> Resp("forgot_password", 503, "Email service unavailable", 0)
      [] OTHER -> Resp("forgot_password", 500, "Internal server error.", 0)

\* otp: what generate_otp() draws; mail: "ok", "connect" (get_email_transporter
\* raises 503) or "send" (send_message raises, answered 500)
forgot_password(email, otp, mail) ==
    /\ IF ~UserWithHash(email)
       THEN /\ last' = Resp("forgot_password", 404, "Email does not exist.", 0)
            /\ UNCHANGED <<otp_storage, consumed>>
       ELSE /\ otp_storage' = StoreOtp(otp_storage, email, otp)
            /\ consumed' = [consumed EXCEPT ![email] = 0]
            /\ last' = MailResp(mail)
    /\ UNCHANGED <<now, ticks, User, HASH, user_token, login_attempts, inflight, issued,
                   logged_out, locked_until>>

\* ------------------------------------------------------------- /verify-otp
\* mutant: >= for >, a record is taken for expired at its expires_at instant
OtpExpired_AtInstant(stored_data) == now >= stored_data.expires_at

\* mutant: the comparison turned round
OtpExpired_Reversed(stored_data) == now < stored_data.expires_at

\* datetime.now() > stored_data['expires_at']
OtpExpired(stored_data) == now > stored_data.expires_at

\* mutant: a successful verify also restarts the record's lifetime
MarkVerified_Renew(store, email) ==
    [store EXCEPT ![email].verified = TRUE,
                  ![email].expires_at = now + OTP_EXPIRE_MINUTES * 60]

\* otp_storage[email]['verified'] = True
MarkVerified(store, email) == [store EXCEPT ![email].verified = TRUE]

\* mutant: a wrong code uses the record up
verify_otp_BurnOnMismatch(email, otp) ==
    LET stored_data == otp_storage[email]
    IN  /\ IF stored_data = None
           THEN /\ last' = Resp("verify_otp", 400, "OTP expired or not found.", 0)
                /\ UNCHANGED otp_storage
           ELSE IF OtpExpired(stored_data)
           THEN /\ otp_storage' = [otp_storage EXCEPT ![email] = None]
                /\ last' = Resp("verify_otp", 400, "OTP expired.", 0)
           ELSE IF stored_data.otp # otp
           THEN /\ last' = Resp("verify_otp", 400, "Invalid OTP.", 0)
                /\ otp_storage' = [otp_storage EXCEPT ![email] = None]
           ELSE /\ otp_storage' = MarkVerified(otp_storage, email)
                /\ last' = Resp("verify_otp", 200, "OTP verified successfully", 0)
        /\ UNCHANGED <<now, ticks, User, HASH, user_token, login_attempts, inflight, issued,
                       logged_out, locked_until, consumed>>

verify_otp(email, otp) ==
    LET stored_data == otp_storage[email]
    IN  /\ IF stored_data = None
           THEN /\ last' = Resp("verify_otp", 400, "OTP expired or not found.", 0)
                /\ UNCHANGED otp_storage
           ELSE IF OtpExpired(stored_data)
           THEN /\ otp_storage' = [otp_storage EXCEPT ![email] = None]
                /\ last' = Resp("verify_otp", 400, "OTP expired.", 0)
           ELSE IF stored_data.otp # otp
           THEN /\ last' = Resp("verify_otp", 400, "Invalid OTP.", 0)
                /\ UNCHANGED otp_storage
           ELSE /\ otp_storage' = MarkVerified(otp_storage, email)
                /\ last' = Resp("verify_otp", 200, "OTP verified successfully", 0)
        /\ UNCHANGED <<now, ticks, User, HASH, user_token, login_attempts, inflight, issued,
                       logged_out, locked_until, consumed>>

\* ---------------------------------------------------------- /reset-password
\* mutant: the verified flag is not looked at
OtpVerified_Always(stored_data) == TRUE

\* stored_data.get('verified')
OtpVerified(stored_data) == stored_data.verified

\* mutant: the record is kept after the password was changed
DeleteOtp_Keep(store, email) == store

\* del otp_storage[email]
DeleteOtp(store, email) == [store EXCEPT ![email] = None]

\* mutant: a successful reset also ends the sessions of the email's users
reset_password_Revoking(email, otp, new_password, db_ok) ==
    LET stored_data == otp_storage[email]
        ok == /\ stored_data # None
              /\ OtpVerified(stored_data)
              /\ ~OtpExpired(stored_data)
              /\ stored_data.otp = otp
              /\ db_ok
    IN  /\ IF stored_data = None
           THEN /\ last' = Resp("reset_password", 400, "OTP expired or not found.", 0)
                /\ UNCHANGED <<otp_storage, HASH, consumed>>
           ELSE IF ~OtpVerified(stored_data)
           THEN /\ last' = Resp("reset_password", 400, "OTP not verified.", 0)
                /\ UNCHANGED <<otp_storage, HASH, consumed>>
           ELSE IF OtpExpired(stored_data)
           THEN /\ otp_storage' = DeleteOtp(otp_storage, email)
                /\ last' = Resp("reset_password", 400, "OTP expired.", 0)
                /\ UNCHANGED <<HASH, consumed>>
           ELSE IF stored_data.otp # otp
           THEN /\ last' = Resp("reset_password", 400, "Invalid OTP.", 0)
                /\ UNCHANGED <<otp_storage, HASH, consumed>>
           ELSE IF ~db_ok
           THEN /\ last' = Resp("reset_password", 500, "Internal server error.", 0)
                /\ UNCHANGED <<otp_storage, HASH, consumed>>
           ELSE /\ HASH' = UpdateHash(email, hash_password(new_password))
                /\ otp_storage' = DeleteOtp(otp_storage, email)
                /\ consumed' = [consumed EXCEPT ![email] = @ + 1]
                /\ last' = Resp("reset_password", 200, "Password updated successfully", 0)
        /\ user_token' = IF ok
                         THEN [u \in DOMAIN user_token |->
                                 IF u \in UserIds /\ User[u] = email THEN None ELSE user_token[u]]
                         ELSE user_token
        /\ UNCHANGED <<now, ticks, User, login_attempts, inflight, issued,
                       logged_out, locked_until>>

\* db_ok: whether get_db_connection, the UPDATE and the commit go through
reset_password(email, otp, new_password, db_ok) ==
    LET stored_data == otp_storage[email]
    IN  /\ IF stored_data = None
           THEN /\ last' = Resp("reset_password", 400, "OTP expired or not found.", 0)
                /\ UNCHANGED <<otp_storage, HASH, consumed>>
           ELSE IF ~OtpVerified(stored_data)
           THEN /\ last' = Resp("reset_password", 400, "OTP not verified.", 0)
                /\ UNCHANGED <<otp_storage, HASH, consumed>>
           ELSE IF OtpExpired(stored_data)
           THEN /\ otp_storage' = DeleteOtp(otp_storage, email)
                /\ last' = Resp("reset_password", 400, "OTP expired.", 0)
                /\ UNCHANGED <<HASH, consumed>>
           ELSE IF stored_data.otp # otp
           THEN /\ last' = Resp("reset_password", 400, "Invalid OTP.", 0)
                /\ UNCHANGED <<otp_storage, HASH, consumed>>
           ELSE IF ~db_ok
           THEN /\ last' = Resp("reset_password", 500, "Internal server error.", 0)
                /\ UNCHANGED <<otp_storage, HASH, consumed>>
           ELSE /\ HASH' = UpdateHash(email, hash_password(new_password))
                /\ otp_storage' = DeleteOtp(otp_storage, email)
                /\ consumed' = [consumed EXCEPT ![email] = @ + 1]
                /\ last' = Resp("reset_password", 200, "Password updated successfully", 0)
        /\ UNCHANGED <<now, ticks, User, user_token, login_attempts, inflight, issued,
                       logged_out, locked_until>>

\* ------------------------------------------------------------------- clock
Advance(d) ==
    /\ ticks < MaxAdvances
    /\ ticks' = ticks + 1
    /\ now' = now + d
    /\ user_token' = RedisSweep(user_token, now + d)
    /\ login_attempts' = RedisSweep(login_attempts, now + d)
    /\ last' = Resp("advance", 0, "", 0)
    /\ UNCHANGED <<User, HASH, otp_storage, inflight, issued, logged_out, locked_until, consumed>>

\* ------------------------------------------------------------ specifications
SignupPasswords == {"pw1"}
LoginPasswords == {"pw1", "pw2"}
GoogleIdinfos == {None} \cup {[email |-> e] : e \in Emails}
MailOutcomes == {"ok", "connect", "send"}

\* Sessions: one worker; the clock moves by a second or by a token lifetime
Next ==
    \/ \E email \in Emails, password \in SignupPasswords : signup(email, password, TRUE)
    \/ \E ip \in IPs, email \in Emails, password \in LoginPasswords : login(ip, email, password)
    \/ \E idinfo \in GoogleIdinfos : google_auth_login(idinfo)
    \/ \E token \in Presentable : logout(token)
    \/ \E token \in Presentable : authenticate(token)
    \/ \E d \in {1, ACCESS_TOKEN_EXPIRE_MINUTES * 60} : Advance(d)

Spec == Init /\ [][Next]_vars

\* Throttle: one worker; the clock moves by a second or by a counter lifetime
NextThrottle ==
    \/ \E email \in Emails, password \in SignupPasswords, db_ok \in BOOLEAN :
          signup(email, password, db_ok)
    \/ \E ip \in IPs, email \in Emails, password \in LoginPasswords : login(ip, email, password)
    \/ \E d \in {1, LOGIN_ATTEMPT_TTL} : Advance(d)

SpecThrottle == Init /\ [][NextThrottle]_vars

\* Throttle with several workers: a login's counter read and its finish are
\* separate steps, and other requests run between them
NextWorkers ==
    \/ \E email \in Emails, password \in SignupPasswords : signup(email, password, TRUE)
    \/ \E ip \in IPs : LoginBegin(ip)
    \/ \E req \in BagToSet(inflight), email \in Emails, password \in LoginPasswords :
          LoginFinish(req, email, password)
    \/ \E d \in {1, LOGIN_ATTEMPT_TTL} : Advance(d)

SpecWorkers == Init /\ [][NextWorkers]_vars

\* Password reset: otp_storage lives in the worker's memory; the clock moves by a
\* second or by an OTP lifetime.  One address gets registered, with or without a
\* HASH row; the requests name the registered address and an unregistered one.
OtpSignupEmails == {"alice@x.com"}

NextOtp ==
    \/ \E email \in OtpSignupEmails, password \in SignupPasswords, db_ok \in BOOLEAN :
          signup(email, password, db_ok)
    \/ \E email \in Emails, otp \in Otps, mail \in MailOutcomes :
          forgot_password(email, otp, mail)
    \/ \E email \in Emails, otp \in Otps : verify_otp(email, otp)
    \/ \E email \in Emails, otp \in Otps, new_password \in LoginPasswords, db_ok \in BOOLEAN :
          reset_password(email, otp, new_password, db_ok)
    \/ \E d \in {1, OTP_EXPIRE_MINUTES * 60} : Advance(d)

SpecOtp == Init /\ [][NextOtp]_vars

\* ------------------------------------------------------------------ claims
\* the credentials (email, password) the credential store would accept
HasPassword(email, password) ==
    \E user \in get_user_by_email(email) :
        user.hash_password # None /\ verify_password(password, user.hash_password)

\* C1: get_current_user answers an identity (200) for a presented token exactly when
\* the token was signed by the server, has not expired, and the registry entry of the
\* token's user_id exists and equals the token; in every other case it answers 401.
C1_AuthenticateRequiresCurrentToken ==
    \A token \in Presentable :
        /\ get_current_user(token).status \in {200, 401}
        /\ get_current_user(token).status = 200 <=>
              /\ token \in issued
              /\ now < token.exp
              /\ user_token[token.user_id.v] # None
              /\ now <= user_token[token.user_id.v].exp
              /\ user_token[token.user_id.v].val = token

\* C1 witness: a token was accepted while another signed, unexpired token is refused
C1_Witness ==
    /\ last.op = "authenticate" /\ last.status = 200
    /\ \E t \in issued : now < t.exp /\ get_current_user(t).status = 401

\* C2: after a successful login of a user, every token issued to that user before
\* the login is refused by get_current_user.
C2_LoginRevokesEarlierTokens ==
    [][ \A ip \in IPs, email \in Emails, password \in LoginPasswords :
          (login(ip, email, password) /\ last'.status = 200)
             => \A t \in issued : t.email = email => get_current_user(t)'.status = 401 ]_vars

\* C3: a token presented to /logout while it was current is refused by
\* get_current_user in every later state.
C3_LoggedOutTokenStaysRefused ==
    logged_out # None => get_current_user(logged_out).status = 401

\* C4: while the counter of a source stands at 5 or more, every login from that
\* source is answered 429 whatever its credentials and changes nothing, and the
\* counter stays as it is until its expiry instant has passed.
C4_LockedSourceIsRefused ==
    [][ \A ip \in IPs :
          (login_attempts[ip] # None /\ login_attempts[ip].val >= 5 /\ now <= login_attempts[ip].exp)
             => /\ \A email \in Emails, password \in LoginPasswords :
                      login(ip, email, password)
                         => /\ last'.status = 429
                            /\ UNCHANGED <<login_attempts, user_token, issued, User, HASH>>
                /\ login_attempts'[ip] = login_attempts[ip] \/ now' > login_attempts[ip].exp ]_vars

\* C4 witness: a login was answered 429 while the store holds credentials that
\* would have been accepted
C4_Witness ==
    /\ last.op = "login" /\ last.status = 429 /\ last.attempts >= 5
    /\ \E email \in Emails, password \in LoginPasswords : HasPassword(email, password)

\* C5: the counter of a source never counts more than 5 failed logins, that is no
\* more than 5 failed attempts get past the counter check within one window.
C5_AtMostFiveFailuresGetThrough ==
    \A ip \in IPs : login_attempts[ip] # None => login_attempts[ip].val <= 5

\* C6: a counter never has more than the window (300 s) left to live; once the
\* expiry instant of a lockout has passed, the counter is absent unless a failure
\* was recorded after that instant, and a login with correct credentials from that
\* source then succeeds.
C6_LockoutEndsAfterWindow ==
    [][ \A ip \in IPs :
          /\ login_attempts'[ip] # None => login_attempts'[ip].exp <= now' + 300
          /\ (locked_until'[ip] >= 0 /\ now' > locked_until'[ip] /\ login_attempts'[ip] # None)
                => login_attempts'[ip].exp - 300 > locked_until'[ip]
          /\ \A email \in Emails, password \in LoginPasswords :
                ( /\ locked_until[ip] >= 0 /\ now > locked_until[ip]
                  /\ login_attempts[ip] = None
                  /\ HasPassword(email, password)
                  /\ login(ip, email, password) )
                   => last'.status = 200 /\ login_attempts'[ip] = None ]_vars

\* C6 witness: a source was locked out, the lockout has expired, and its login succeeded
C6_Witness ==
    \E ip \in IPs :
        /\ locked_until[ip] >= 0 /\ now > locked_until[ip]
        /\ last.op = "login" /\ last.status = 200
        /\ login_attempts[ip] = None

\* C7: a failure recorded while the counter exists leaves the counter's expiry
\* instant unchanged.
C7_TtlSetOnlyOnFirstFailure ==
    [][ \A ip \in IPs :
          ( /\ login_attempts[ip] # None /\ login_attempts'[ip] # None
            /\ login_attempts'[ip].val = login_attempts[ip].val + 1 )
             => login_attempts'[ip].exp = login_attempts[ip].exp ]_vars

\* C8: a login is answered 401 exactly when it is not throttled and its credentials
\* are not accepted (unknown email, no hash, wrong password), and then the counter of
\* the source is one more than it was; a login answered 200 leaves the counter absent.
C8_FailureCountsSuccessClears ==
    [][ \A ip \in IPs, email \in Emails, password \in LoginPasswords :
          login(ip, email, password)
             => /\ last'.status \in {200, 401, 429}
                /\ last'.status = 401 <=> (ReadAttempts(ip) < 5 /\ ~HasPassword(email, password))
                /\ last'.status = 401
                      => /\ login_attempts'[ip] # None
                         /\ login_attempts'[ip].val = ReadAttempts(ip) + 1
                /\ last'.status = 200 => login_attempts'[ip] = None ]_vars

\* C8 witness: a login succeeded from a source that had failures counted, and the
\* counter is gone
C8_Witness ==
    /\ last.op = "login" /\ last.status = 200 /\ last.attempts >= 1
    /\ \A ip \in IPs : login_attempts[ip] = None

\* C9: reset_password changes the stored hashes only from a record whose verified
\* flag is set; on a record that is stored but not verified it answers 400 and
\* leaves the hashes alone, whatever code is supplied.
C9_ResetRequiresVerifiedRecord ==
    [][ \A email \in Emails, otp \in Otps, new_password \in LoginPasswords, db_ok \in BOOLEAN :
          reset_password(email, otp, new_password, db_ok)
             => /\ (HASH' # HASH \/ last'.status = 200)
                      => (otp_storage[email] # None /\ otp_storage[email].verified)
                /\ (otp_storage[email] # None /\ ~otp_storage[email].verified)
                      => (last'.status = 400 /\ HASH' = HASH) ]_vars

\* C9 witness: reset_password was refused on a stored, unexpired, unverified record
C9_Witness ==
    /\ last.op = "reset_password" /\ last.status = 400 /\ last.detail = "OTP not verified."
    /\ \E email \in Emails :
          /\ otp_storage[email] # None
          /\ ~otp_storage[email].verified
          /\ now <= otp_storage[email].expires_at

\* C10: the record one forgot_password stored is consumed by at most one successful
\* reset_password: the successful call deletes it, and a reset_password on the
\* deleted record answers 400 and leaves the hashes alone.
C10_ResetOncePerRecord ==
    [][ /\ \A email \in Emails : consumed'[email] <= 1
        /\ \A email \in Emails, otp \in Otps, new_password \in LoginPasswords, db_ok \in BOOLEAN :
              reset_password(email, otp, new_password, db_ok)
                 => /\ last'.status = 200 => otp_storage'[email] = None
                    /\ otp_storage[email] = None => (last'.status = 400 /\ HASH' = HASH) ]_vars

\* C10 witness: after the one successful reset, a further reset_password was refused
C10_Witness ==
    /\ last.op = "reset_password" /\ last.status = 400
    /\ last.detail = "OTP expired or not found."
    /\ \E email \in Emails : consumed[email] = 1 /\ otp_storage[email] = None

\* C11: once the clock is past a stored record's expires_at, verify_otp and
\* reset_password for that email answer 400 whatever code is supplied, the hashes
\* stay as they are, and the record stays expired or is gone until forgot_password
\* stores a new one: it is never verified or consumed again.
C11_ExpiredRecordIsDead ==
    [][ \A email \in Emails :
          (otp_storage[email] # None /\ now > otp_storage[email].expires_at)
             => /\ \A otp \in Otps :
                      verify_otp(email, otp)
                         => /\ last'.status = 400
                            /\ HASH' = HASH
                            /\ otp_storage'[email] = None
                /\ \A otp \in Otps, new_password \in LoginPasswords, db_ok \in BOOLEAN :
                      reset_password(email, otp, new_password, db_ok)
                         => /\ last'.status = 400
                            /\ HASH' = HASH
                            /\ consumed'[email] = consumed[email]
                /\ last'.op # "forgot_password"
                      => otp_storage'[email] \in {None, otp_storage[email]} ]_vars

\* C11 witness: a verified record expired and reset_password refused it
C11_Witness ==
    /\ last.op = "reset_password" /\ last.status = 400 /\ last.detail = "OTP expired."
    /\ \E email \in Emails : UserWithHash(email) /\ otp_storage[email] = None
                             /\ consumed[email] = 0

\* Federated accounts: nobody sets a password.  /signup only ever fails after its
\* INSERT INTO User (a User row without a HASH row), /google-auth-login creates or
\* resolves the accounts, and /login is tried with every password, the default
\* one included.
FederatedPasswords == LoginPasswords \cup {GoogleDefault}

NextFederated ==
    \/ \E email \in Emails, password \in SignupPasswords : signup(email, password, FALSE)
    \/ \E idinfo \in GoogleIdinfos : google_auth_login(idinfo)
    \/ \E ip \in IPs, email \in Emails, password \in FederatedPasswords :
          login(ip, email, password)
    \/ \E d \in {1, LOGIN_ATTEMPT_TTL} : Advance(d)

SpecFederated == Init /\ [][NextFederated]_vars

\* C12: where every account was created or resolved by google_auth_login and no
\* password was ever set, no login succeeds, whatever password it supplies.
C12_FederatedUserCannotLogin ==
    [][ \A ip \in IPs, email \in Emails, password \in FederatedPasswords :
          login(ip, email, password) => last'.status # 200 ]_vars

\* C13: signup for an email that has a User row answers 409 and leaves User, HASH,
\* the issued tokens and the registry as they were; signup for an email without a
\* User row, when its inserts go through, answers 200, adds the User row and a HASH
\* row holding the password, and leaves a token that get_current_user accepts.
C13_SignupConflictOrSession ==
    [][ \A email \in Emails, password \in SignupPasswords, db_ok \in BOOLEAN :
          signup(email, password, db_ok)
             => IF \E u \in UserIds : User[u] = email
                THEN /\ last'.status = 409
                     /\ UNCHANGED <<User, HASH, issued, user_token>>
                ELSE db_ok
                      => /\ last'.status = 200
                         /\ User' = Append(User, email)
                         /\ \E r \in HASH' \ HASH :
                               /\ r.user_id = Len(User') /\ r.email = email
                               /\ verify_password(password, r.hash_password)
                         /\ \E token \in issued' :
                               /\ token.email = email
                               /\ user_token'[Len(User')] # None
                               /\ user_token'[Len(User')].val = token
                               /\ get_current_user(token)'.status = 200 ]_vars

\* C13 witness: a signup was answered 409 while the token of a successful signup is
\* accepted
C13_Witness ==
    /\ last.op = "signup" /\ last.status = 409
    /\ \E token \in issued : token.user_id.type = "str" /\ get_current_user(token).status = 200

\* ------------------------------------------- registration in several workers
\* /signup and /google-auth-login in worker processes sharing MySQL: the lookup by
\* email and the INSERT INTO User are separate statements on separate connections,
\* and other requests run between them.
\* lines 152-156: the existence check
SignupBegin(email) ==
    /\ IF get_user_by_email(email) # {}
       THEN /\ last' = Resp("signup", 409, "Email already registered", 0)
            /\ UNCHANGED inflight
       ELSE /\ BagCardinality(inflight) < MaxReqs
            /\ inflight' = inflight (+) SetToBag({[op |-> "signup", email |-> email, user |-> None]})
            /\ last' = Resp("signup", 0, "pending", 0)
    /\ UNCHANGED <<now, ticks, User, HASH, user_token, login_attempts, otp_storage,
                   issued, logged_out, locked_until, consumed>>

\* lines 158-177.  dup_ok: whether MySQL accepts a second User row with the email
\* (the table's DDL is in no source file; a rejected INSERT raises, answered 500)
SignupFinish(req, password, dup_ok) ==
    /\ BagIn(req, inflight) /\ req.op = "signup"
    /\ inflight' = inflight (-) SetToBag({req})
    /\ IF (\E u \in UserIds : User[u] = req.email) /\ ~dup_ok
       THEN /\ last' = Resp("signup", 500, "Internal Server Error", 0)
            /\ UNCHANGED <<User, HASH, user_token, issued>>
       ELSE LET user_id == Len(User) + 1
                token == create_access_token(
                            [user_id |-> StrId(user_id), email |-> req.email],
                            ACCESS_TOKEN_EXPIRE_MINUTES)
            IN  /\ Len(User) < Cardinality(Emails)
                /\ User' = create_user(req.email)
                /\ HASH' = create_user_hash(user_id, req.email, hash_password(password))
                /\ Cardinality(issued \cup {token}) <= MaxTokens
                /\ issued' = issued \cup {token}
                /\ user_token' = store_token_in_redis(StrId(user_id), token,
                                        ACCESS_TOKEN_EXPIRE_MINUTES * 60)
                /\ last' = Resp("signup", 200, "ok", 0)
    /\ UNCHANGED <<now, ticks, login_attempts, otp_storage, logged_out, locked_until, consumed>>

\* lines 231-244: the Google token is verified and the user looked up
GoogleBegin(idinfo) ==
    /\ IF idinfo = None
       THEN /\ last' = Resp("google_auth_login", 401, "Invalid Google token", 0)
            /\ UNCHANGED inflight
       ELSE LET found == get_user_by_email(idinfo.email)
            IN  \E user \in IF found = {} THEN {None} ELSE found :
                  /\ BagCardinality(inflight) < MaxReqs
                  /\ inflight' = inflight (+)
                        SetToBag({[op |-> "google", email |-> idinfo.email, user |-> user]})
                  /\ last' = Resp("google_auth_login", 0, "pending", 0)
    /\ UNCHANGED <<now, ticks, User, HASH, user_token, login_attempts, otp_storage,
                   issued, logged_out, locked_until, consumed>>

\* lines 245-282, with the row the lookup returned
GoogleFinish(req, dup_ok) ==
    /\ BagIn(req, inflight) /\ req.op = "google"
    /\ inflight' = inflight (-) SetToBag({req})
    /\ IF req.user = None /\ (\E u \in UserIds : User[u] = req.email) /\ ~dup_ok
       THEN /\ last' = Resp("google_auth_login", 500, "Internal Server Error", 0)
            /\ UNCHANGED <<User, HASH, user_token, issued>>
       ELSE LET user_id == IF req.user = None THEN Len(User) + 1 ELSE req.user.user_id
                token == create_access_token(
                            [user_id |-> IntId(user_id), email |-> req.email],
                            ACCESS_TOKEN_EXPIRE_MINUTES)
            IN  /\ req.user = None => Len(User) < Cardinality(Emails)
                /\ User' = IF req.user = None THEN create_user(req.email) ELSE User
                /\ HASH' = IF req.user = None \/ req.user.hash_password = None
                           THEN create_user_hash(user_id, req.email, hash_password(GoogleDefault))
                           ELSE HASH
                /\ Cardinality(issued \cup {token}) <= MaxTokens
                /\ issued' = issued \cup {token}
                /\ user_token' = store_token_in_redis(StrId(user_id), token,
                                        ACCESS_TOKEN_EXPIRE_MINUTES * 60)
                /\ last' = Resp("google_auth_login", 200, "ok", 0)
    /\ UNCHANGED <<now, ticks, login_attempts, otp_storage, logged_out, locked_until, consumed>>

NextRegistration ==
    \/ \E email \in Emails : SignupBegin(email)
    \/ \E req \in BagToSet(inflight), password \in SignupPasswords, dup_ok \in BOOLEAN :
          SignupFinish(req, password, dup_ok)
    \/ \E idinfo \in GoogleIdinfos : GoogleBegin(idinfo)
    \/ \E req \in BagToSet(inflight), dup_ok \in BOOLEAN : GoogleFinish(req, dup_ok)
    \/ \E d \in {1, ACCESS_TOKEN_EXPIRE_MINUTES * 60} : Advance(d)

SpecRegistration == Init /\ [][NextRegistration]_vars

\* C14: whatever the interleaving of signup and google_auth_login requests, no two
\* User rows hold the same email.
C14_EmailStaysUnique ==
    \A u \in UserIds, v \in UserIds : User[u] = User[v] => u = v

\* C15: when a login finishes successfully right after another successful login,
\* having been in flight while that one finished, the token it writes is accepted
\* and the token the registry held for that user before the write is refused.
C15_LastLoginWins ==
    [][ \A req \in BagToSet(inflight), email \in Emails, password \in LoginPasswords :
          ( /\ last.op = "login" /\ last.status = 200
            /\ LoginFinish(req, email, password)
            /\ last'.status = 200 )
             => /\ \E token \in issued' :
                      /\ token.email = email
                      /\ user_token'[KeyOf(token.user_id)] # None
                      /\ user_token'[KeyOf(token.user_id)].val = token
                      /\ get_current_user(token)'.status = 200
                /\ \A t \in issued :
                      (t.email = email /\ get_current_user(t).status = 200)
                         => get_current_user(t)'.status = 401 ]_vars

\* C16: forgot_password for an email that has no User row with a HASH row answers
\* 404 whatever the mail server would do (the transporter is never reached), and
\* leaves otp_storage and the credential tables as they were.
C16_ForgotPasswordUnknownEmail ==
    [][ \A email \in Emails, otp \in Otps, mail \in MailOutcomes :
          ( /\ forgot_password(email, otp, mail)
            /\ ~ \E u \in UserIds : User[u] = email /\ \E r \in HASH : r.user_id = u )
             => /\ last'.status = 404
                /\ UNCHANGED <<otp_storage, consumed, User, HASH>> ]_vars

\* C16 witness: forgot_password answered 404 where the only User row has no HASH row
C16_Witness ==
    /\ last.op = "forgot_password" /\ last.status = 404
    /\ Len(User) = 1 /\ HASH = {}
    /\ \A email \in Emails : otp_storage[email] = None

\* C17: whenever forgot_password gets past the lookup, whatever record the email
\* had before (none, unverified or verified), the email then has the one record
\* [the code just drawn, expires_at = now + 900 s, not verified], and the records of
\* the other emails are untouched.
C17_ForgotPasswordReplacesRecord ==
    [][ \A email \in Emails, otp \in Otps, mail \in MailOutcomes :
          (forgot_password(email, otp, mail) /\ last'.status # 404)
             => /\ otp_storage'[email] # None
                /\ otp_storage'[email].otp = otp
                /\ otp_storage'[email].expires_at = now + 900
                /\ otp_storage'[email].verified = FALSE
                /\ consumed'[email] = 0
                /\ \A other \in Emails \ {email} : otp_storage'[other] = otp_storage[other] ]_vars

\* C17 witness: after a reset consumed one record, forgot_password stored a new one
\* and reset_password was refused for want of a new verify_otp
C17_Witness ==
    /\ last.op = "reset_password" /\ last.status = 400 /\ last.detail = "OTP not verified."
    /\ \E email \in Emails :
          /\ otp_storage[email] # None /\ ~otp_storage[email].verified
          /\ consumed[email] = 0
          /\ \E r \in HASH : r.email = email /\ verify_password("pw2", r.hash_password)

\* C18: a forgot_password whose mail dispatch fails, at the connection to the mail
\* server or at the sending of the message, never answers 200: it answers 503 or
\* 500 (or 404 when the email does not resolve and no mail is attempted).
C18_MailFailureIsSurfaced ==
    [][ \A email \in Emails, otp \in Otps, mail \in MailOutcomes \ {"ok"} :
          forgot_password(email, otp, mail)
             => /\ last'.status # 200
                /\ last'.status \in {404, 500, 503}
                /\ ( /\ \E u \in UserIds : User[u] = email /\ \E r \in HASH : r.user_id = u
                     /\ mail = "connect" ) => last'.status = 503 ]_vars

\* C18 witness: forgot_password answered 503 and the record it stored is there
C18_Witness ==
    /\ last.op = "forgot_password" /\ last.status = 503
    /\ \E email \in Emails : otp_storage[email] # None /\ ~otp_storage[email].verified

\* C19 as stated: every reset_password that does not answer 200 leaves otp_storage
\* exactly as it was.
C19_FailedResetKeepsRecord ==
    [][ \A email \in Emails, otp \in Otps, new_password \in LoginPasswords, db_ok \in BOOLEAN :
          (reset_password(email, otp, new_password, db_ok) /\ last'.status # 200)
             => otp_storage' = otp_storage ]_vars

\* C19 amended: a reset_password that does not answer 200 changes no hash, and it
\* leaves otp_storage exactly as it was unless the record is verified and past its
\* expires_at, in which case it deletes that record and nothing else.
C19_FailedResetKeepsUnexpiredRecord ==
    [][ \A email \in Emails, otp \in Otps, new_password \in LoginPasswords, db_ok \in BOOLEAN :
          (reset_password(email, otp, new_password, db_ok) /\ last'.status # 200)
             => /\ HASH' = HASH
                /\ IF /\ otp_storage[email] # None
                      /\ otp_storage[email].verified
                      /\ now > otp_storage[email].expires_at
                   THEN otp_storage' = [otp_storage EXCEPT ![email] = None]
                   ELSE otp_storage' = otp_storage ]_vars

\* C19 witness: the UPDATE failed and the verified, unexpired record is still there
C19_Witness ==
    /\ last.op = "reset_password" /\ last.status = 500
    /\ \E email \in Emails :
          /\ otp_storage[email] # None /\ otp_storage[email].verified
          /\ now <= otp_storage[email].expires_at

\* C20: verify_otp with the stored code on a record that is already verified and
\* not past its expires_at answers 200 and leaves the record, code, expires_at and
\* verified flag included, exactly as it was.
C20_VerifyOtpIdempotent ==
    [][ \A email \in Emails, otp \in Otps :
          ( /\ otp_storage[email] # None
            /\ otp_storage[email].verified
            /\ now <= otp_storage[email].expires_at
            /\ otp_storage[email].otp = otp
            /\ verify_otp(email, otp) )
             => /\ last'.status = 200
                /\ otp_storage' = otp_storage
                /\ otp_storage'[email].verified ]_vars

\* C20 witness: verify_otp succeeded on a record later than the second it was stored
\* in, and the record is verified with its first expires_at
C20_Witness ==
    /\ last.op = "verify_otp" /\ last.status = 200
    /\ \E email \in Emails :
          /\ otp_storage[email] # None /\ otp_storage[email].verified
          /\ otp_storage[email].expires_at < now + 900
          /\ now <= otp_storage[email].expires_at

\* Sessions and logout: one worker; signup, login with the signup password, logout
\* and the protected routes; the clock moves by a second or by a token lifetime
NextLogout ==
    \/ \E email \in Emails, password \in SignupPasswords : signup(email, password, TRUE)
    \/ \E ip \in IPs, email \in Emails, password \in SignupPasswords : login(ip, email, password)
    \/ \E token \in Presentable : logout(token)
    \/ \E token \in Presentable : authenticate(token)
    \/ \E d \in {1, ACCESS_TOKEN_EXPIRE_MINUTES * 60} : Advance(d)

SpecLogout == Init /\ [][NextLogout]_vars

\* C21: logout answers 200 for every cookie: none, a token signed with another
\* key, an expired token, a valid one.  When the cookie is missing or does not
\* decode the registry stays as it was; when it decodes, the entry of its user_id
\* is gone and no other entry is touched.
C21_LogoutAlwaysSucceeds ==
    [][ \A token \in Presentable :
          logout(token)
             => /\ last'.status = 200
                /\ UNCHANGED <<User, HASH, issued, login_attempts, otp_storage>>
                /\ IF token \in issued /\ now < token.exp
                   THEN user_token' = [user_token EXCEPT ![token.user_id.v] = None]
                   ELSE user_token' = user_token ]_vars

\* C21 witness: logout answered 200 while a session is registered and one of the
\* issued tokens has expired
C21_Witness ==
    /\ last.op = "logout" /\ last.status = 200
    /\ \E u \in DOMAIN user_token : user_token[u] # None
    /\ \E t \in issued : t.exp <= now

\* Token lifetime: tokens are issued by signup and google_auth_login and presented
\* to the protected routes; the clock moves by a second or to one second before a
\* token lifetime
BeforeExpiry == ACCESS_TOKEN_EXPIRE_MINUTES * 60 - 1

NextToken ==
    \/ \E email \in Emails, password \in SignupPasswords : signup(email, password, TRUE)
    \/ \E idinfo \in GoogleIdinfos : google_auth_login(idinfo)
    \/ \E token \in Presentable : authenticate(token)
    \/ \E d \in {1, BeforeExpiry} : Advance(d)

SpecToken == Init /\ [][NextToken]_vars

ApiLoginRows(email) ==
    { [user_id |-> u, hash_password |-> r.hash_password] :
         u \in {x \in UserIds : User[x] = email}, r \in {x \in HASH : x.email = email} }

\* what the handler answers when fetchone() returned `result` (None: no row)
ApiLoginResp(result, password) ==
    IF result # None /\ verify_password(password, result.hash_password)
    THEN Resp("api_login", 200, "Login successful", 0)
    ELSE IF result = None
         THEN Resp("api_login", 401, "User not found or invalid credentials.", 0)
         ELSE Resp("api_login", 401, "Invalid credentials.", 0)

\* the handler: no counter, no token, no registry write (its LoginTrace row is not
\* part of the state)
api_login(email, password) ==
    /\ \E result \in IF ApiLoginRows(email) = {} THEN {None} ELSE ApiLoginRows(email) :
          last' = ApiLoginResp(result, password)
    /\ UNCHANGED <<now, ticks, User, HASH, user_token, login_attempts, otp_storage,
                   inflight, issued, logged_out, locked_until, consumed>>

\* Both login implementations, one worker
NextLoginApi ==
    \/ NextThrottle
    \/ \E email \in Emails, password \in LoginPasswords : api_login(email, password)

SpecLoginApi == Init /\ [][NextLoginApi]_vars

\* C23: a failed login is answered the same way whether the email is unknown, the
\* user has no hash or the password is wrong: /login always answers 401 "Invalid
\* email or password", and any two /api/login requests that fail in one state get
\* the same status and message.
C23_UniformLoginFailure ==
    [][ /\ \A ip \in IPs, email \in Emails, password \in LoginPasswords :
              (login(ip, email, password) /\ last'.status = 401)
                 => last'.detail = "Invalid email or password"
        /\ \A email \in Emails, password \in LoginPasswords :
              (api_login(email, password) /\ last'.status = 401)
                 => \A e2 \in Emails, p2 \in LoginPasswords :
                       \A result \in IF ApiLoginRows(e2) = {} THEN {None} ELSE ApiLoginRows(e2) :
                          ApiLoginResp(result, p2).status = 401
                             => ApiLoginResp(result, p2).detail = last'.detail ]_vars

\* ------------------------------------------- password reset followed by login
NextReset ==
    \/ \E email \in OtpSignupEmails, password \in SignupPasswords : signup(email, password, TRUE)
    \/ \E email \in OtpSignupEmails, otp \in Otps : forgot_password(email, otp, "ok")
    \/ \E email \in OtpSignupEmails, otp \in Otps : verify_otp(email, otp)
    \/ \E email \in OtpSignupEmails, otp \in Otps, new_password \in LoginPasswords,
          db_ok \in BOOLEAN :
          reset_password(email, otp, new_password, db_ok)
    \/ \E ip \in IPs, email \in OtpSignupEmails, password \in LoginPasswords :
          login(ip, email, password)
    \/ Advance(OTP_EXPIRE_MINUTES * 60)

SpecReset == Init /\ [][NextReset]_vars

\* C24: after a successful reset-password for an email, a login for it with the new
\* password succeeds from an unthrottled source and a login with the previous
\* password is answered 401.  In steps: a successful reset leaves the new password
\* as the only one the credential store accepts for the email; nothing but a
\* successful reset changes what the store accepts for a registered email; and a
\* login from a source below the limit is answered 200 when the store accepts the
\* credentials and 401 when it does not.
C24_ResetThenLogin ==
    [][ /\ \A email \in OtpSignupEmails, otp \in Otps, new_password \in LoginPasswords,
              db_ok \in BOOLEAN :
              (reset_password(email, otp, new_password, db_ok) /\ last'.status = 200)
                 => \A password \in LoginPasswords :
                       HasPassword(email, password)' <=> password = new_password
        /\ (last'.op # "reset_password" \/ last'.status # 200)
              => \A email \in Emails, password \in LoginPasswords :
                    (\E q \in LoginPasswords : HasPassword(email, q))
                       => (HasPassword(email, password)' <=> HasPassword(email, password))
        /\ \A ip \in IPs, email \in OtpSignupEmails, password \in LoginPasswords :
              (login(ip, email, password) /\ ~IsLocked(ReadAttempts(ip)))
                 => last'.status = IF HasPassword(email, password) THEN 200 ELSE 401 ]_vars

\* a login accepted with the password a reset has put in place of the signup one
C24_Witness ==
    /\ last.op = "login" /\ last.status = 200
    /\ \E email \in Emails :
          /\ consumed[email] >= 1
          /\ \E password \in LoginPasswords \ SignupPasswords : HasPassword(email, password)
          /\ \A password \in SignupPasswords : ~HasPassword(email, password)

\* C25: a successful reset-password changes the password hash of the email and its
\* OTP record and nothing else: the Session Registry, the issued tokens and the
\* login-failure counters are as before, the other hashes and OTP records too, and
\* every token gets the answer from get_current_user that it got before the reset.
C25_ResetKeepsSessions ==
    [][ \A email \in OtpSignupEmails, otp \in Otps, new_password \in LoginPasswords,
           db_ok \in BOOLEAN :
           (reset_password(email, otp, new_password, db_ok) /\ last'.status = 200)
              => /\ UNCHANGED <<User, user_token, login_attempts, issued>>
                 /\ \A r \in HASH : r.email # email => r \in HASH'
                 /\ {[user_id |-> r.user_id, email |-> r.email] : r \in HASH'}
                       = {[user_id |-> r.user_id, email |-> r.email] : r \in HASH}
                 /\ \A e \in Emails \ {email} : otp_storage'[e] = otp_storage[e]
                 /\ otp_storage'[email] = None
                 /\ \A token \in Presentable :
                       get_current_user(token)' = get_current_user(token) ]_vars

\* a reset has just succeeded while a session is current and failures are counted
C25_Witness ==
    /\ last.op = "reset_password" /\ last.status = 200
    /\ \E token \in issued : get_current_user(token).status = 200
    /\ \E ip \in IPs : login_attempts[ip] # None /\ login_attempts[ip].val >= 1

\* C26: logout does not ask whether the presented token is the current one.  Any
\* token that still decodes to user u, a superseded one included, deletes the
\* registry entry of u, and after that every token of u, the one that was current
\* included, is answered 401 by get_current_user.
C26_LogoutWithAnyTokenOfUser ==
    [][ \A token \in Presentable \ {NoCookie} :
          (logout(token) /\ decode_access_token(token) # None)
             => LET u == decode_access_token(token).user_id.v
                IN  /\ user_token'[u] = None
                    /\ \A t \in issued :
                          t.user_id.v = u => get_current_user(t)'.status = 401
                    /\ \A t \in issued :
                          (t.user_id.v = u /\ get_current_user(t).status = 200)
                             => get_current_user(t)'.detail = "Session expired or token invalid" ]_vars

\* no current token was ever presented to logout, yet the entry of a user is gone
\* while the token of the user's last login has not expired: a superseded token
\* ended the session
C26_Witness ==
    /\ last.op = "logout"
    /\ logged_out = None
    /\ \E u \in UserIds, t \in issued :
          /\ t.user_id = IntId(u)
          /\ now < t.exp
          /\ user_token[u] = None
          /\ get_current_user(t).status = 401

\* C27: a login answered 401 or 429 leaves the Session Registry as it was: no
\* token is issued or stored, and every token gets the answer from
\* get_current_user that it got before, so a session that was current stays so.
C27_FailedLoginKeepsRegistry ==
    [][ \A ip \in IPs, email \in Emails, password \in LoginPasswords :
          (login(ip, email, password) /\ last'.status \in {401, 429})
             => /\ UNCHANGED <<user_token, issued>>
                /\ \A token \in Presentable :
                      get_current_user(token)' = get_current_user(token) ]_vars

\* a login has just been refused as throttled while a session is current
C27_Witness ==
    /\ last.op = "login" /\ last.status = 429
    /\ \E token \in issued : get_current_user(token).status = 200

\* C28: a login from a source whose counter stands at the limit is answered 429
\* whatever the email and the password are, those the credential store would accept
\* included (no credential lookup), and the counter keeps its value and its expiry.
C28_ThrottledLoginTouchesNothing ==
    [][ \A ip \in IPs, email \in Emails, password \in LoginPasswords :
          login(ip, email, password)
             => /\ last'.status = 429 <=> IsLocked(ReadAttempts(ip))
                /\ last'.status = 429
                      => /\ last' = Resp("login", 429, "Too many login attempts. Try again later.",
                                         ReadAttempts(ip))
                         /\ login_attempts'[ip] = login_attempts[ip]
                         /\ UNCHANGED <<login_attempts, User, HASH, user_token, issued>> ]_vars

\* a login has just been refused as throttled while the store holds credentials
\* that it would accept
C28_Witness ==
    /\ last.op = "login" /\ last.status = 429
    /\ \E ip \in IPs : login_attempts[ip] # None /\ login_attempts[ip].val = LOGIN_ATTEMPT_LIMIT
                       /\ now <= login_attempts[ip].exp
    /\ \E email \in Emails, password \in LoginPasswords : HasPassword(email, password)

\* C29: verify_otp with a code that is not the stored one, on a record not past
\* its expires_at, answers 400 "Invalid OTP." and leaves the record as it was:
\* wrong guesses are neither counted nor do they use the record up.  The stored
\* code presented to an unexpired record is answered 200 and the record is
\* verified, so it still verifies after any number of wrong guesses.
C29_WrongOtpKeepsRecord ==
    [][ \A email \in Emails, otp \in Otps :
          ( /\ otp_storage[email] # None
            /\ now <= otp_storage[email].expires_at
            /\ verify_otp(email, otp) )
             => IF otp_storage[email].otp # otp
                THEN /\ last' = Resp("verify_otp", 400, "Invalid OTP.", 0)
                     /\ otp_storage' = otp_storage
                ELSE /\ last'.status = 200
                     /\ otp_storage'[email] = [otp_storage[email] EXCEPT !.verified = TRUE] ]_vars

\* a wrong code has just been refused and the record is there, unexpired and not
\* verified
C29_Witness ==
    /\ last.op = "verify_otp" /\ last.status = 400 /\ last.detail = "Invalid OTP."
    /\ \E email \in Emails :
          /\ otp_storage[email] # None
          /\ ~otp_storage[email].verified
          /\ now <= otp_storage[email].expires_at

\* C30: signup is all or nothing: every User row a signup creates has a password
\* hash, and a signup answered with an error has created no User row for its email.
C30_SignupAllOrNothing ==
    [][ \A email \in Emails, password \in SignupPasswords, db_ok \in BOOLEAN :
          signup(email, password, db_ok)
             => /\ \A u \in (1..Len(User')) \ UserIds :
                      \E r \in HASH' : r.user_id = u /\ r.hash_password # None
                /\ last'.status # 200 => User' = User ]_vars
====
